---- MODULE Spec2Model ----
(***************************************************************************)
(* Agent orchestration core of the web-scrapping agent: the step loops of  *)
(* the brain, extractor, content-extract and navigator agents, the         *)
(* conversation kept by MessageManager, the tool dispatcher MyAgentTools   *)
(* and the delegation tools that run a child agent.                        *)
(*                                                                         *)
(* Each source file is modelled on its own terms.  Where a file relies on  *)
(* a helper that src/ does not hold in a matching version (the is_done     *)
(* flag of ActionResult, the MessageManager that takes `ephemeral`, the    *)
(* tools module of the navigator, the navigator that wna_navigate_and_find *)
(* constructs) the helper is modelled from the specification.              *)
(***************************************************************************)
EXTENDS Integers, Sequences, FiniteSets, TLC

\* stack: the running agents, the child above its parent; next_agent_id:
\* the counter of MyAgentContext.generate_next_agent_id; files: the CSV
\* files written; children: the child agents created so far, in order;
\* steps: the calls of step() made so far by all agents of the run; run_id:
\* the top-level run the process is making, the first, the second, ...
VARIABLES stack, next_agent_id, files, children, steps, run_id

vars == <<stack, next_agent_id, files, children, steps, run_id>>

(***************************************************************************)
(* Bounds                                                                  *)
(***************************************************************************)
\* largest step budget (max_steps) a top-level run is started with
MaxBudget == 2
\* step budget of a child agent started by a delegation tool
MaxChildBudget == 1
\* largest number of tool calls in one model response
MaxCalls == 2
\* largest number of top-level runs one process makes
MaxRuns == 2

\* top-level agents; "wna" is the navigator wna_navigate_and_find runs
Roles == {"brain", "extractor", "cea", "navigator"}

Msgs == {"m1", "m2"}

\* rows: "d.." is a dict, "s.." a string holding a JSON object
IsDictRow(r) == r = "d1"
\* persist_rows(rows: list[str]): the batches the tool schema admits
Batches == {<<>>, <<"s1">>, <<"s2">>}
TextRows == {<<>>, <<"d1">>}

(***************************************************************************)
(* ActionResult                                                            *)
(***************************************************************************)
NoContent == [key |-> "none", rows |-> <<>>]

\* the is_done flag read by MyBrainAgent.run, MyContentExtractAgent.run and
\* MyNavigatorAgent.step: set for the distinguished termination tools
DoneFlag(action_name) ==
    action_name \in {"done", "navigation_done", "extraction_done"}

ActionResult(action_name, success, msg, content) ==
    [action_name |-> action_name, success |-> success,
     action_result_msg |-> msg, content |-> content,
     is_done |-> DoneFlag(action_name)]

\* ActionResult(...) built with an explicit is_done keyword
ActionResultIsDone(action_name, success, msg, content, is_done) ==
    [ActionResult(action_name, success, msg, content) EXCEPT !.is_done = is_done]

NoResult == ActionResultIsDone("None", FALSE, "None", NoContent, FALSE)

(***************************************************************************)
(* Context memory                                                          *)
(***************************************************************************)
EmptyMemory == [plan |-> "none", has_rows |-> FALSE, extracted_rows |-> <<>>]

(***************************************************************************)
(* Tools                                                                   *)
(***************************************************************************)
BRAIN_TOOLS ==
    {"done", "wna_navigate_and_find", "cea_extract_content", "print_file_content"}

NAVIGATOR_TOOLS ==
    {"done", "search_google", "go_back", "go_to_url", "click_element",
     "open_tab", "switch_tab", "get_dropdown_options", "select_dropdown_option"}

CEA_TOOLS ==
    {"go_back", "go_to_url", "click_element", "input_text", "send_keys",
     "get_dropdown_options", "select_dropdown_option", "extraction_done",
     "persist_rows"}

\* the tool set MyExtractorAgent is built with
EXTRACTOR_TOOLS == CEA_TOOLS

\* every agent built on the tool list of the brain
ToolSet_BrainForAll(role) == BRAIN_TOOLS

ToolSet(role) ==
    CASE role = "brain" -> BRAIN_TOOLS
      [] role \in {"navigator", "wna"} -> NAVIGATOR_TOOLS
      [] role = "cea" -> CEA_TOOLS
      [] role = "extractor" -> EXTRACTOR_TOOLS

DelegationTools == {"wna_navigate_and_find", "cea_extract_content"}

\* what the browser, the page and the file system can do to a tool:
\* "ok" it works, "fail" an error the tool catches, "raise" one it does not
ToolOutcomes(name) ==
    CASE name \in {"done", "navigation_done", "persist_plan", "persist_rows"} -> {"ok"}
      [] name \in {"search_google", "go_back", "go_to_url", "open_tab", "switch_tab",
                   "scroll_down", "scroll_up", "send_keys", "input_text"} -> {"ok", "raise"}
      [] name \in {"click_element", "get_dropdown_options", "select_dropdown_option"}
                   -> {"ok", "fail", "raise"}
      [] name \in {"scroll_to_text", "print_file_content", "extraction_done"} -> {"ok", "fail"}
      [] OTHER -> {"ok"}

Returned(ar, memory, written) ==
    [raised |-> FALSE, error |-> "none", ar |-> ar, memory |-> memory,
     written |-> written, invoked |-> 1]

Raised(error, memory) ==
    [raised |-> TRUE, error |-> error, ar |-> NoResult, memory |-> memory,
     written |-> <<>>, invoked |-> 1]

done(call, memory) ==
    Returned(ActionResult("done", call.success, call.message, NoContent), memory, <<>>)

navigation_done(call, memory) ==
    Returned(ActionResult("navigation_done", call.success, call.message, NoContent),
             memory, <<>>)

\* search_google, go_back, go_to_url, open_tab, switch_tab, scroll_down,
\* scroll_up: the page operation is awaited outside any try block
PageTool(call, memory) ==
    IF call.env = "raise"
    THEN Raised("Exception", memory)
    ELSE Returned(ActionResult(call.name, TRUE, "ok", NoContent), memory, <<>>)

\* raises when the element index is not in the selector map
input_text(call, memory) ==
    IF call.env = "raise"
    THEN Raised("Exception", memory)
    ELSE Returned(ActionResult("input_text", TRUE, "ok", NoContent), memory, <<>>)

\* raises when the index is not in the selector map; a file uploader and a
\* failing click are reported as success=False
click_element(call, memory) ==
    CASE call.env = "raise" -> Raised("Exception", memory)
      [] call.env = "fail" ->
            Returned(ActionResult("click_element", FALSE, "fail", NoContent), memory, <<>>)
      [] OTHER ->
            Returned(ActionResult("click_element", TRUE, "ok", NoContent), memory, <<>>)

send_keys(call, memory) ==
    IF call.env = "raise"
    THEN Raised("Exception", memory)
    ELSE Returned(ActionResult("send_keys", TRUE, "ok", NoContent), memory, <<>>)

scroll_to_text(call, memory) ==
    Returned(ActionResult("scroll_to_text", call.env = "ok",
                          IF call.env = "ok" THEN "ok" ELSE "fail", NoContent),
             memory, <<>>)

\* get_dropdown_options and select_dropdown_option: selector_map[index] is
\* read outside the try block (KeyError), the rest is caught
DropdownTool(call, memory) ==
    CASE call.env = "raise" -> Raised("KeyError", memory)
      [] call.env = "fail" ->
            Returned(ActionResult(call.name, FALSE, "fail", NoContent), memory, <<>>)
      [] OTHER ->
            Returned(ActionResult(call.name, TRUE, "ok", NoContent), memory, <<>>)

persist_plan(call, memory) ==
    Returned(ActionResult("persist_plan", TRUE, "Plan persisted to memory", NoContent),
             [memory EXCEPT !.plan = call.message], <<>>)

print_file_content(call, memory) ==
    Returned(ActionResult("print_file_content", call.env = "ok",
                          IF call.env = "ok" THEN "ok" ELSE "fail", NoContent),
             memory, <<>>)

\* persist_rows making the extracted_rows list before it looks at the batch
persist_rows_CreatesKey(call, memory) ==
    IF call.rows = <<>>
    THEN Returned(ActionResult("persist_rows", FALSE, "No rows were passed to the tool!",
                               NoContent), [memory EXCEPT !.has_rows = TRUE], <<>>)
    ELSE Returned(ActionResult("persist_rows", TRUE, "Successfully persisted", NoContent),
                  [memory EXCEPT !.has_rows = TRUE,
                                 !.extracted_rows = memory.extracted_rows \o call.rows],
                  <<>>)

\* persist_rows: an empty batch is refused before the memory is touched
persist_rows(call, memory) ==
    IF call.rows = <<>>
    THEN Returned(ActionResult("persist_rows", FALSE, "No rows were passed to the tool!",
                               NoContent), memory, <<>>)
    ELSE Returned(ActionResult("persist_rows", TRUE, "Successfully persisted", NoContent),
                  [memory EXCEPT !.has_rows = TRUE,
                                 !.extracted_rows = memory.extracted_rows \o call.rows],
                  <<>>)

\* csv_filename is bound only after the field names of the first row were
\* read: with no rows, or a first row that is no dict, the return statement
\* reads an unbound local (UnboundLocalError)
extraction_done(call, memory) ==
    LET extracted_rows == memory.extracted_rows
        all_dicts == \A i \in 1..Len(extracted_rows) : IsDictRow(extracted_rows[i])
    IN  IF extracted_rows = <<>> \/ ~IsDictRow(extracted_rows[1])
        THEN Raised("UnboundLocalError", memory)
        ELSE IF call.env = "ok" /\ all_dicts
             THEN Returned(ActionResult("extraction_done", call.success, "Data saved",
                                        [key |-> "extracted_rows", rows |-> extracted_rows]),
                           memory, <<extracted_rows>>)
             ELSE Returned(ActionResult("extraction_done", FALSE, "Error saving to CSV",
                                        [key |-> "extracted_rows", rows |-> extracted_rows]),
                           memory, <<>>)

\* the implementation behind a tool name (the delegation tools run a child
\* agent: see Delegate and AfterChild)
Tool(call, memory) ==
    CASE call.name = "done" -> done(call, memory)
      [] call.name = "navigation_done" -> navigation_done(call, memory)
      [] call.name = "input_text" -> input_text(call, memory)
      [] call.name = "click_element" -> click_element(call, memory)
      [] call.name = "send_keys" -> send_keys(call, memory)
      [] call.name = "scroll_to_text" -> scroll_to_text(call, memory)
      [] call.name \in {"get_dropdown_options", "select_dropdown_option"} ->
            DropdownTool(call, memory)
      [] call.name = "persist_plan" -> persist_plan(call, memory)
      [] call.name = "print_file_content" -> print_file_content(call, memory)
      [] call.name = "persist_rows" -> persist_rows(call, memory)
      [] call.name = "extraction_done" -> extraction_done(call, memory)
      [] OTHER -> PageTool(call, memory)

\* execute_tool without the lookup: whatever implementation carries the
\* name is called, in the agent's tool list or not
execute_tool_NoLookup(role, call, memory) == Tool(call, memory)

\* MyAgentTools.execute_tool: look the tool up by name in the agent's list
execute_tool(role, call, memory) ==
    IF call.name \notin ToolSet(role)
    THEN [Returned(ActionResult("execute_tool", FALSE, "not found", NoContent),
                   memory, <<>>) EXCEPT !.invoked = 0]
    ELSE Tool(call, memory)

(***************************************************************************)
(* Conversation (MessageManager._messages)                                 *)
(***************************************************************************)
NoId == <<0, 0>>

Entry(kind, call_id, name, content) ==
    [kind |-> kind, call_id |-> call_id, name |-> name, content |-> content]

\* MessageManager.__init__ followed by the add_user_message of the agent's
\* constructor: the system prompt, then the task statement
InitialMessages ==
    <<Entry("system", NoId, "-", "system prompt"), Entry("user", NoId, "-", "task")>>

add_ai_message(messages, content) ==
    Append(messages, Entry("assistant", NoId, "-", content))

add_ai_function_tool_call_message(messages, call) ==
    Append(messages, Entry("function_call", call.call_id, call.name, "arguments"))

\* the tool result written over the last entry instead of appended
add_tool_result_message_Overwrite(messages, result_message, tool_call_id) ==
    [messages EXCEPT ![Len(messages)] =
        Entry("function_call_output", tool_call_id, "-", result_message)]

\* MessageManager.add_tool_result_message
add_tool_result_message(messages, result_message, tool_call_id) ==
    Append(messages, Entry("function_call_output", tool_call_id, "-", result_message))

\* get_messages returning self._messages itself
get_messages_NoCopy(messages) == [list |-> messages, shares |-> TRUE]

\* MessageManager.get_messages: copy.deepcopy of the stored list; `shares`
\* tells whether the returned list is the stored list itself
get_messages(messages) == [list |-> messages, shares |-> FALSE]

\* what a step gathers for the model and adds to its copy of the
\* conversation: the current plan (brain), the screenshot and the page as
\* Markdown (extractor), the browser state and the page as Markdown
\* (content-extract agent), the browser state (navigator); `step` tells the
\* step that gathered it
Observation(name, content, step) == Entry("observation", <<step, 0>>, name, content)

Observations(role, step) ==
    CASE role = "brain" -> <<Observation("plan", "text", step)>>
      [] role = "extractor" ->
            <<Observation("screenshot", "image", step), Observation("markdown", "text", step)>>
      [] role = "cea" ->
            <<Observation("browser_state", "image", step), Observation("markdown", "text", step)>>
      [] OTHER -> <<Observation("browser_state", "image", step)>>

\* the observation added through the MessageManager instead: it is stored
Observe_Stored(stored, snapshot, observation) ==
    [input |-> stored \o observation, stored |-> stored \o observation,
     shares |-> snapshot.shares]

\* messages.extend(...) / messages.append(...) on the list get_messages gave:
\* the list sent to the model, and the stored list, which changes only if
\* the two are one list
Observe(stored, snapshot, observation) ==
    [input |-> snapshot.list \o observation,
     stored |-> IF snapshot.shares THEN snapshot.list \o observation ELSE stored,
     shares |-> snapshot.shares]

\* get_json_messages leaving the observations of the step out of the copy
get_json_messages_StoredOnly(messages) ==
    LET kept == SelectSeq(messages, LAMBDA entry : entry.kind # "observation")
    IN  [i \in 1..Len(kept) |->
            IF kept[i].content = "image"
            THEN [kept[i] EXCEPT !.content = "REDACTED"]
            ELSE kept[i]]

\* MessageManager.get_json_messages: a deep copy with every image redacted
get_json_messages(messages) ==
    [i \in 1..Len(messages) |->
        IF messages[i].content = "image"
        THEN [messages[i] EXCEPT !.content = "REDACTED"]
        ELSE messages[i]]

\* what the disk can do to persist_state: "ok" the files are written,
\* "fail" makedirs, open or write raises OSError
DiskOutcomes == {"ok", "fail"}

\* persist_state redacting the list it was handed instead of a copy
persist_state_RedactsInPlace(messages, disk) ==
    IF disk = "fail"
    THEN [raised |-> TRUE, error |-> "OSError", written |-> <<>>, messages |-> messages]
    ELSE [raised |-> FALSE, error |-> "none", written |-> get_json_messages(messages),
          messages |-> get_json_messages(messages)]

\* MessageManager.persist_state: no try block around the writes; `written`
\* is the JSON transcript, `messages` the caller's list as the call leaves it
persist_state(messages, disk) ==
    IF disk = "fail"
    THEN [raised |-> TRUE, error |-> "OSError", written |-> <<>>, messages |-> messages]
    ELSE [raised |-> FALSE, error |-> "none", written |-> get_json_messages(messages),
          messages |-> messages]

(***************************************************************************)
(* Agents: one frame per running step loop, the child above its parent     *)
(***************************************************************************)
NoCall ==
    [name |-> "-", success |-> FALSE, message |-> "m1", rows |-> <<>>, env |-> "ok",
     call_id |-> NoId]

\* no response yet: the model has not answered the step's request
NoResponse == [output_text |-> FALSE, rows |-> <<>>, output |-> <<>>]

NewFrame(role, ctx_id, agent_id, max_steps, memory) ==
    [role |-> role, ctx_id |-> ctx_id, agent_id |-> agent_id, max_steps |-> max_steps,
     step_number |-> 0, pc |-> "run", messages |-> InitialMessages,
     memory |-> memory, extracted_rows |-> <<>>,
     action_result |-> NoResult, ret |-> NoResult, error |-> "none",
     raised_in |-> "none", call |-> NoCall, calls |-> 0, response |-> NoResponse,
     invoked |-> 0, input |-> <<>>, input_shares |-> FALSE, persisted |-> <<>>,
     memory_shared |-> FALSE]

Top == stack[Len(stack)]

(***************************************************************************)
(* Model responses                                                         *)
(***************************************************************************)
CallsOf(name) ==
    CASE name \in {"done", "navigation_done"} ->
            {[name |-> name, success |-> s, message |-> m, rows |-> <<>>, env |-> "ok"] :
                s \in BOOLEAN, m \in Msgs}
      [] name = "persist_rows" ->
            {[name |-> name, success |-> FALSE, message |-> "m1", rows |-> b, env |-> "ok"] :
                b \in Batches}
      [] name = "persist_plan" ->
            {[name |-> name, success |-> FALSE, message |-> m, rows |-> <<>>, env |-> "ok"] :
                m \in Msgs}
      [] name = "extraction_done" ->
            {[name |-> name, success |-> s, message |-> "m1", rows |-> <<>>, env |-> e] :
                s \in BOOLEAN, e \in ToolOutcomes(name)}
      [] OTHER ->
            {[name |-> name, success |-> FALSE, message |-> "m1", rows |-> <<>>, env |-> e] :
                e \in ToolOutcomes(name)}

\* names the model may ask for although the agent's tool list lacks them
Unregistered ==
    {"no_such_tool", "persist_plan", "click_element", "persist_rows",
     "cea_extract_content", "navigation_done"}

Requestable(role) == ToolSet(role) \cup Unregistered

FirstCalls(role) == UNION {CallsOf(n) : n \in Requestable(role)}

\* tool calls that follow the first one in a response: the k-th extra call
ExtraCall(k) ==
    IF k % 2 = 1
    THEN [name |-> "done", success |-> TRUE, message |-> "m2", rows |-> <<>>, env |-> "ok"]
    ELSE [name |-> "persist_rows", success |-> FALSE, message |-> "m1", rows |-> <<"s1">>,
          env |-> "ok"]

ExtraCalls(n) == [k \in 1..n |-> ExtraCall(k)]

\* the tool calls of a response that carries no text
Outputs(role) ==
    {<<>>} \cup {<<c>> \o ExtraCalls(n) : c \in FirstCalls(role), n \in 0..(MaxCalls - 1)}

\* the tool calls of a response that carries text as well: only the
\* navigator looks at them
TextOutputs(role) ==
    IF role \in {"navigator", "wna"}
    THEN {<<>>} \cup {<<c>> : c \in FirstCalls(role)}
    ELSE {<<>>, <<ExtraCall(1)>>}

Responses(role) ==
    {[output_text |-> TRUE, rows |-> r, output |-> o] :
        r \in IF role \in {"extractor", "cea"} THEN TextRows ELSE {<<>>},
        o \in TextOutputs(role)}
    \cup
    {[output_text |-> FALSE, rows |-> <<>>, output |-> o] : o \in Outputs(role)}

\* taking the last tool call of the response instead of the first
first_function_tool_call_Last(f, resp) ==
    LET n == Len(resp.output)
    IN  [name |-> resp.output[n].name, success |-> resp.output[n].success,
         message |-> resp.output[n].message, rows |-> resp.output[n].rows,
         env |-> resp.output[n].env, call_id |-> <<f.calls, n>>]

\* the responses a child agent is given: those of its role whose first tool
\* call, if any, is one of a few tools that between them return, fail,
\* raise, write memory, end the run, are unregistered and ask for a child
ChildTools ==
    {"done", "go_to_url", "click_element", "persist_rows", "extraction_done",
     "no_such_tool", "cea_extract_content"}

ChildResponses(role) ==
    {resp \in Responses(role) :
        /\ Len(resp.output) <= 1
        /\ resp.output # <<>> => resp.output[1].name \in ChildTools}

\* next((item for item in response.output if isinstance(item,
\* ResponseFunctionToolCall)), None) with the call_id the model gave it
first_function_tool_call(f, resp) ==
    [name |-> resp.output[1].name, success |-> resp.output[1].success,
     message |-> resp.output[1].message, rows |-> resp.output[1].rows,
     env |-> resp.output[1].env, call_id |-> <<f.calls, 1>>]

(***************************************************************************)
(* One step, from the model's response to the step's return                *)
(***************************************************************************)
StepResult(frame, ar, written) ==
    [kind |-> "result", frame |-> [frame EXCEPT !.action_result = ar], ar |-> ar,
     written |-> written]

\* where: "tool" the exception left a tool implementation, "step" it was
\* raised by step() itself
StepRaise(frame, error, where) ==
    [kind |-> "raise", frame |-> [frame EXCEPT !.error = error, !.raised_in = where],
     ar |-> NoResult, written |-> <<>>]

StepDelegate(frame) ==
    [kind |-> "delegate", frame |-> frame, ar |-> NoResult, written |-> <<>>]

\* the tool_result append that follows execute_tool, given what the
\* dispatch did: an exception leaves the step before the append
RecordResult(f, d) ==
    LET g == [f EXCEPT !.memory = d.memory, !.invoked = f.invoked + d.invoked]
    IN  IF d.raised
        THEN StepRaise(g, d.error, "tool")
        ELSE StepResult([g EXCEPT !.messages = add_tool_result_message(
                                       g.messages, d.ar.action_result_msg, g.call.call_id)],
                        d.ar, d.written)

\* a delegation tool run for whoever asks for it, in the tool list or not
DispatchCall_AnyDelegation(f, call) ==
    LET g == [f EXCEPT !.messages = add_ai_function_tool_call_message(f.messages, call),
                       !.call = call]
    IN  IF call.name \in DelegationTools
        THEN StepDelegate(g)
        ELSE RecordResult(g, execute_tool(g.role, call, g.memory))

\* append the tool_call entry, dispatch, append the tool_result entry
DispatchCall(f, call) ==
    LET g == [f EXCEPT !.messages = add_ai_function_tool_call_message(f.messages, call),
                       !.call = call]
    IN  IF call.name \in DelegationTools /\ call.name \in ToolSet(f.role)
        THEN StepDelegate(g)
        ELSE RecordResult(g, execute_tool(g.role, call, g.memory))

\* MyAgentTools.handle_tool_call
handle_tool_call(f, resp) ==
    IF resp.output = <<>>
    THEN StepRaise(f, "RuntimeError", "step")
    ELSE DispatchCall(f, first_function_tool_call(f, resp))

\* MyBrainAgent.step losing the text of the response: nothing is appended
MyBrainAgentStep_TextDropped(f, resp) ==
    IF resp.output_text
    THEN StepResult(f, ActionResultIsDone("default_action_name", TRUE,
                                          "No action executed. The model output is text.",
                                          NoContent, FALSE),
                    <<>>)
    ELSE IF resp.output = <<>>
         THEN StepRaise(f, "Exception", "step")
         ELSE DispatchCall(f, first_function_tool_call(f, resp))

\* MyBrainAgent.step looking for a tool call after it stored the text, as
\* the navigator does
MyBrainAgentStep_CallAfterText(f, resp) ==
    LET g == IF resp.output_text
             THEN [f EXCEPT !.messages = add_ai_message(f.messages, "output_text")]
             ELSE f
    IN  IF resp.output = <<>>
        THEN IF resp.output_text
             THEN StepResult(g, ActionResultIsDone("default_action_name", TRUE,
                                                   "No action executed. The model output is text.",
                                                   NoContent, FALSE),
                             <<>>)
             ELSE StepRaise(g, "Exception", "step")
        ELSE DispatchCall(g, first_function_tool_call(g, resp))

\* MyBrainAgent.step, after responses.create returned
MyBrainAgentStep(f, resp) ==
    IF resp.output_text
    THEN StepResult([f EXCEPT !.messages = add_ai_message(f.messages, "output_text")],
                    ActionResultIsDone("default_action_name", TRUE,
                                       "No action executed. The model output is text.",
                                       NoContent, FALSE),
                    <<>>)
    ELSE IF resp.output = <<>>
         THEN StepRaise(f, "Exception", "step")
         ELSE DispatchCall(f, first_function_tool_call(f, resp))

\* MyExtractorAgent.step, after responses.create returned
MyExtractorAgentStep(f, resp) ==
    IF resp.output_text
    THEN StepResult(f, ActionResult("output_text", TRUE, "Extraction completed.",
                                    [key |-> "rows", rows |-> resp.rows]),
                    <<>>)
    ELSE handle_tool_call(f, resp)

\* MyContentExtractAgent.step, after responses.create returned
MyContentExtractAgentStep(f, resp) ==
    IF resp.output_text
    THEN StepResult([f EXCEPT !.extracted_rows = resp.rows],
                    ActionResultIsDone("default_action_name", TRUE,
                                       "Extraction of rows completed.", NoContent, TRUE),
                    <<>>)
    ELSE IF resp.output = <<>>
         THEN StepRaise(f, "RuntimeError", "step")
         ELSE DispatchCall(f, first_function_tool_call(f, resp))

\* MyNavigatorAgent.step, after responses.create returned: is_done and
\* is_success stay (False, True) when the response holds no tool call
MyNavigatorAgentStep(f, resp) ==
    LET g == IF resp.output_text
             THEN [f EXCEPT !.messages = add_ai_message(f.messages, "output_text")]
             ELSE f
    IN  IF resp.output = <<>>
        THEN StepResult(g, ActionResultIsDone("default_action_name", TRUE, "None",
                                              NoContent, FALSE),
                        <<>>)
        ELSE DispatchCall(g, first_function_tool_call(g, resp))

Step(f, resp) ==
    CASE f.role = "brain" -> MyBrainAgentStep(f, resp)
      [] f.role = "extractor" -> MyExtractorAgentStep(f, resp)
      [] f.role = "cea" -> MyContentExtractAgentStep(f, resp)
      [] OTHER -> MyNavigatorAgentStep(f, resp)

(***************************************************************************)
(* run(): what the loop does with the ActionResult of the step just made   *)
(***************************************************************************)
\* the list sent to the model follows the stored conversation when the two
\* are one list
KeepSnapshot(frame) ==
    IF frame.input_shares THEN [frame EXCEPT !.input = frame.messages] ELSE frame

RunOutcome(frame, written) == [frame |-> KeepSnapshot(frame), written |-> written]

Return(f, ret) == [f EXCEPT !.pc = "returned", !.ret = ret]

\* an exception raised by run()'s own statements
Raise(f, error) == [f EXCEPT !.pc = "raised", !.error = error, !.raised_in = "run"]

\* the loop going round without moving on to the next step number
NextStep_NoIncrement(f) == [f EXCEPT !.pc = "run"]

\* for step_number in range(max_steps): the next iteration
NextStep(f) == [f EXCEPT !.pc = "run", !.step_number = f.step_number + 1]

LastStep(f) == f.step_number + 1 >= f.max_steps

\* MyBrainAgent.run giving up on the first failed action
MyBrainAgentRun_StopsOnFailure(f, ar) ==
    IF ar.is_done \/ ~ar.success \/ LastStep(f)
    THEN RunOutcome(Return(f, ar), <<>>)
    ELSE RunOutcome(NextStep(f), <<>>)

\* MyBrainAgent.run without the break: the loop runs the budget out
MyBrainAgentRun_NoBreak(f, ar) ==
    IF LastStep(f)
    THEN RunOutcome(Return(f, ar), <<>>)
    ELSE RunOutcome(NextStep(f), <<>>)

\* MyBrainAgent.run
MyBrainAgentRun(f, ar) ==
    IF ar.is_done \/ LastStep(f)
    THEN RunOutcome(Return(f, ar), <<>>)
    ELSE RunOutcome(NextStep(f), <<>>)

\* MyExtractorAgent.run reporting success whatever the last step produced
MyExtractorAgentRun_SuccessWithoutRows(f, ar) ==
    IF ar.action_name = "output_text" \/ LastStep(f)
    THEN IF ar.content.key = "extracted_rows"
         THEN RunOutcome(Raise(f, "KeyError"), <<>>)
         ELSE LET extracted_rows == IF ar.content.key = "rows" THEN ar.content.rows ELSE <<>>
              IN  RunOutcome(
                     Return(f, ActionResult("done", TRUE, "Successfully extracted",
                                            [key |-> "rows", rows |-> extracted_rows])),
                     IF Len(extracted_rows) > 0 THEN <<extracted_rows>> ELSE <<>>)
    ELSE RunOutcome(NextStep(f), <<>>)

\* MyExtractorAgent.run: the loop ends on a text response or on the budget;
\* content['rows'] is then read from whatever the last step returned
MyExtractorAgentRun(f, ar) ==
    IF ar.action_name = "output_text" \/ LastStep(f)
    THEN IF ar.content.key = "extracted_rows"
         THEN RunOutcome(Raise(f, "KeyError"), <<>>)
         ELSE LET extracted_rows == IF ar.content.key = "rows" THEN ar.content.rows ELSE <<>>
              IN  IF Len(extracted_rows) > 0
                  THEN RunOutcome(
                         Return(f, ActionResult("done", TRUE, "Successfully extracted",
                                                [key |-> "rows", rows |-> extracted_rows])),
                         <<extracted_rows>>)
                  ELSE RunOutcome(
                         Return(f, ActionResult("done", FALSE, "Extraction failed",
                                                NoContent)),
                         <<>>)
    ELSE RunOutcome(NextStep(f), <<>>)

\* MyContentExtractAgent.run: the return statement reads self._csv_path,
\* which nothing assigns (AttributeError)
MyContentExtractAgentRun(f, ar) ==
    IF ar.is_done \/ LastStep(f)
    THEN RunOutcome(Raise(f, "AttributeError"),
                    IF Len(f.extracted_rows) > 0 THEN <<f.extracted_rows>> ELSE <<>>)
    ELSE RunOutcome(NextStep(f), <<>>)

\* MyNavigatorAgent.run: no return statement, the caller gets None
MyNavigatorAgentRun(f, ar) ==
    IF ar.is_done \/ LastStep(f)
    THEN RunOutcome(Return(f, NoResult), <<>>)
    ELSE RunOutcome(NextStep(f), <<>>)

\* run() of the navigator that wna_navigate_and_find constructs: its
\* terminal ActionResult, or a failing one when the budget ran out
WnaRun(f, ar) ==
    IF ar.is_done
    THEN RunOutcome(Return(f, ar), <<>>)
    ELSE IF LastStep(f)
         THEN RunOutcome(Return(f, ActionResult("done", FALSE, "max steps exceeded",
                                                NoContent)), <<>>)
         ELSE RunOutcome(NextStep(f), <<>>)

Run(f, ar) ==
    CASE f.role = "brain" -> MyBrainAgentRun(f, ar)
      [] f.role = "extractor" -> MyExtractorAgentRun(f, ar)
      [] f.role = "cea" -> MyContentExtractAgentRun(f, ar)
      [] f.role = "navigator" -> MyNavigatorAgentRun(f, ar)
      [] OTHER -> WnaRun(f, ar)

\* an exception raised inside step() leaves run() as it is
AfterStep(r) ==
    IF r.kind = "raise"
    THEN RunOutcome([r.frame EXCEPT !.pc = "raised"], r.written)
    ELSE LET o == Run(r.frame, r.ar)
         IN  RunOutcome(o.frame, r.written \o o.written)

(***************************************************************************)
(* Delegation: wna_navigate_and_find and cea_extract_content               *)
(***************************************************************************)
\* generate_next_agent_id without the increment of the counter
generate_next_agent_id_NoIncrement(counter) == [next_id |-> counter, counter |-> counter]

\* MyAgentContext.generate_next_agent_id
generate_next_agent_id(counter) == [next_id |-> counter, counter |-> counter + 1]

\* new_agent_context handing on the dict of the Context it is called on
\* (memory=self.memory)
new_agent_context_SharedMemory(self_memory, counter) ==
    LET id == generate_next_agent_id(counter)
    IN  [agent_id |-> id.next_id, memory |-> self_memory, memory_shared |-> TRUE,
         counter |-> id.counter]

\* MyAgentContext.new_agent_context: a Context with the next agent id and a
\* memory of its own (memory={}); `memory_shared` tells whether the memory
\* is the dict of the Context it was made from
new_agent_context(self_memory, counter) ==
    LET id == generate_next_agent_id(counter)
    IN  [agent_id |-> id.next_id, memory |-> EmptyMemory, memory_shared |-> FALSE,
         counter |-> id.counter]

\* the child a delegation tool constructs on ctx.new_agent_context(): the
\* constructor of MyContentExtractAgent draws a second id for its log
\* directory
NewChild(name, self_memory, counter) ==
    LET ctx == new_agent_context(self_memory, counter)
        own == generate_next_agent_id(ctx.counter)
    IN  IF name = "wna_navigate_and_find"
        THEN [frame |-> [NewFrame("wna", ctx.agent_id, ctx.agent_id, MaxChildBudget,
                                  ctx.memory)
                           EXCEPT !.memory_shared = ctx.memory_shared],
              counter |-> ctx.counter]
        ELSE [frame |-> [NewFrame("cea", ctx.agent_id, own.next_id, MaxChildBudget,
                                  ctx.memory)
                           EXCEPT !.memory_shared = ctx.memory_shared],
              counter |-> own.counter]

\* the parent's memory once the child is gone: its own dict, which holds the
\* child's writes only if the child was given that very dict
MemoryAfter(parent, child) ==
    IF child.memory_shared THEN child.memory ELSE parent.memory

\* what the delegation tool hands to execute_tool once the child's run()
\* is over: the child's message and success flag under the tool's own name
DelegationResult(parent, child) ==
    IF child.pc = "raised"
    THEN Raised(child.error, MemoryAfter(parent, child))
    ELSE Returned(ActionResult(parent.call.name, child.ret.success,
                               child.ret.action_result_msg, NoContent),
                  MemoryAfter(parent, child), <<>>)

(***************************************************************************)
(* The state machine                                                       *)
(***************************************************************************)
\* the memory of the Context a top-level caller hands over: empty, or for
\* an extraction agent rows an earlier run left in it
InitialMemories(role) ==
    IF role \in {"extractor", "cea"}
    THEN {EmptyMemory, [EmptyMemory EXCEPT !.has_rows = TRUE, !.extracted_rows = <<"d1">>]}
    ELSE {EmptyMemory}

Init ==
    /\ \E role \in Roles, budget \in 1..MaxBudget :
          \E memory \in InitialMemories(role) :
             stack = IF role = "cea"
                     THEN <<NewFrame(role, -1, 0, budget, memory)>>
                     ELSE <<NewFrame(role, -1, -1, budget, memory)>>
    /\ next_agent_id = IF stack[1].role = "cea" THEN 1 ELSE 0
    /\ files = <<>>
    /\ children = <<>>
    /\ steps = 0
    /\ run_id = 1

\* step() writing the transcript before it gathers the observation: the
\* stored conversation alone is written
BeginStep_PersistFirst(f, disk) ==
    LET marked == IF f.role = "brain"
                  THEN add_ai_message(f.messages, "Current step")
                  ELSE f.messages
        p == persist_state(get_messages(marked).list, disk)
        o == Observe(marked, get_messages(marked), Observations(f.role, f.calls + 1))
        g == [f EXCEPT !.messages = o.stored, !.call = NoCall, !.response = NoResponse,
                       !.invoked = 0]
    IN  IF p.raised
        THEN [g EXCEPT !.pc = "raised", !.error = p.error, !.raised_in = "persist"]
        ELSE [g EXCEPT !.pc = "model", !.calls = f.calls + 1, !.input = o.input,
                       !.input_shares = o.shares, !.persisted = p.written]

\* the part of step() before the model is called: the brain agent stores
\* its step marker, every agent adds its observation to a copy of the
\* conversation, persist_state writes that list and responses.create is
\* called with it; an exception of persist_state leaves step() and run()
BeginStep(f, disk) ==
    LET marked == IF f.role = "brain"
                  THEN add_ai_message(f.messages, "Current step")
                  ELSE f.messages
        o == Observe(marked, get_messages(marked), Observations(f.role, f.calls + 1))
        p == persist_state(o.input, disk)
        g == [f EXCEPT !.messages = o.stored, !.call = NoCall, !.response = NoResponse,
                       !.invoked = 0]
    IN  IF p.raised
        THEN [g EXCEPT !.pc = "raised", !.error = p.error, !.raised_in = "persist"]
        ELSE [g EXCEPT !.pc = "model", !.calls = f.calls + 1, !.input = p.messages,
                       !.input_shares = o.shares, !.persisted = p.written]

InvokeModel ==
    /\ Top.pc = "run"
    /\ \E disk \in DiskOutcomes :
          stack' = [stack EXCEPT ![Len(stack)] = BeginStep(Top, disk)]
    /\ steps' = steps + 1
    /\ UNCHANGED <<next_agent_id, files, children, run_id>>

ModelResponds ==
    /\ Top.pc = "model"
    /\ UNCHANGED <<steps, run_id>>
    /\ \E resp \in IF Len(stack) = 1 THEN Responses(Top.role) ELSE ChildResponses(Top.role) :
          LET f == [Top EXCEPT !.response = resp]
              r == Step(f, resp)
          IN  IF r.kind = "delegate"
              THEN LET child == NewChild(r.frame.call.name, r.frame.memory, next_agent_id)
                   IN  /\ stack' = Append([stack EXCEPT ![Len(stack)] =
                                                 [r.frame EXCEPT !.pc = "tool"]],
                                           child.frame)
                       /\ next_agent_id' = child.counter
                       /\ files' = files
                       /\ children' = Append(children,
                                             [role |-> child.frame.role,
                                              ctx_id |-> child.frame.ctx_id,
                                              agent_id |-> child.frame.agent_id])
              ELSE LET o == AfterStep(r)
                   IN  /\ stack' = [stack EXCEPT ![Len(stack)] = o.frame]
                       /\ files' = files \o o.written
                       /\ next_agent_id' = next_agent_id
                       /\ children' = children

\* the delegation tool without the await: the parent goes on while the
\* child is still running
DelegationReturns_Early ==
    /\ Len(stack) >= 2
    /\ LET parent == stack[Len(stack) - 1]
           p == AfterStep(RecordResult(parent, DelegationResult(parent, Top)))
       IN  /\ stack' = Append(SubSeq(stack, 1, Len(stack) - 2), p.frame)
           /\ files' = files \o p.written
    /\ UNCHANGED <<next_agent_id, children, steps, run_id>>

\* the child's run() is over: `await agent.run()` in the delegation tool
\* returns or raises, the tool's result goes through execute_tool back into
\* the parent's step, and the parent's loop check follows
DelegationReturns ==
    /\ Len(stack) >= 2
    /\ Top.pc \in {"returned", "raised"}
    /\ LET parent == stack[Len(stack) - 1]
           p == AfterStep(RecordResult(parent, DelegationResult(parent, Top)))
       IN  /\ stack' = Append(SubSeq(stack, 1, Len(stack) - 2), p.frame)
           /\ files' = files \o p.written
    /\ UNCHANGED <<next_agent_id, children, steps, run_id>>

Next == InvokeModel \/ ModelResponds \/ DelegationReturns

Spec == Init /\ [][Next]_vars

\* every model invocation and every browser primitive returns: the agent
\* that is running goes on with its next operation
FairSpec == Spec /\ WF_vars(Next)

(***************************************************************************)
(* One process making several top-level runs, each on a Context of its own *)
(* built by the caller: what the agent ids of the children are drawn from. *)
(* A run is followed here only as far as its delegations go; the steps of  *)
(* the children are those of Spec.                                         *)
(***************************************************************************)
ProcessInit ==
    /\ stack = <<NewFrame("brain", -1, -1, MaxBudget, EmptyMemory)>>
    /\ next_agent_id = 0
    /\ files = <<>>
    /\ children = <<>>
    /\ steps = 0
    /\ run_id = 1

\* the loop check of the brain's run() after a step that was not its last
\* word: on to the next step, or the budget is used up
AfterProcessStep(f) == IF LastStep(f) THEN Return(f, f.action_result) ELSE NextStep(f)

\* a step of the run dispatches a delegation tool: the child is constructed
\* on ctx.new_agent_context(), which draws from the counter of the class
ProcessDelegates ==
    /\ Top.pc = "run"
    /\ \E name \in DelegationTools :
          LET child == NewChild(name, Top.memory, next_agent_id)
          IN  /\ next_agent_id' = child.counter
              /\ children' = Append(children,
                                    [role |-> child.frame.role,
                                     ctx_id |-> child.frame.ctx_id,
                                     agent_id |-> child.frame.agent_id,
                                     run_id |-> run_id])
    /\ stack' = <<AfterProcessStep(Top)>>
    /\ steps' = steps + 1
    /\ UNCHANGED <<files, run_id>>

\* a step of the run that makes no delegation; it may be the step that ends
\* the run, with done or with the exception of a tool that nothing catches
ProcessSteps ==
    /\ Top.pc = "run"
    /\ \E end \in {"on", "done", "raised"} :
          stack' = <<CASE end = "on" -> AfterProcessStep(Top)
                       [] end = "done" -> Return(Top, Top.action_result)
                       [] end = "raised" -> Raise(Top, "KeyError")>>
    /\ steps' = steps + 1
    /\ UNCHANGED <<next_agent_id, files, children, run_id>>

\* the caller keeping the counter in the Context it builds: every run starts
\* at 0 again
StartRun_OwnCounter ==
    /\ Top.pc \in {"returned", "raised"}
    /\ run_id < MaxRuns
    /\ stack' = <<NewFrame("brain", -1, -1, MaxBudget, EmptyMemory)>>
    /\ run_id' = run_id + 1
    /\ steps' = 0
    /\ next_agent_id' = 0
    /\ UNCHANGED <<files, children>>

\* the process makes its next top-level run on a new MyAgentContext: the
\* counter is an attribute of the static method, the new Context finds it as
\* the runs before left it
StartRun ==
    /\ Top.pc \in {"returned", "raised"}
    /\ run_id < MaxRuns
    /\ stack' = <<NewFrame("brain", -1, -1, MaxBudget, EmptyMemory)>>
    /\ run_id' = run_id + 1
    /\ steps' = 0
    /\ UNCHANGED <<next_agent_id, files, children>>

ProcessNext == ProcessDelegates \/ ProcessSteps \/ StartRun

ProcessSpec == ProcessInit /\ [][ProcessNext]_vars

(***************************************************************************)
(* Properties                                                              *)
(***************************************************************************)
Depth == Len(stack)

\* run() is over: it returned or an exception left it
Ended(f) == f.pc \in {"returned", "raised"}

\* the frame holds the response of the step it made last
Handled(f) == f.calls >= 1 /\ f.pc # "model" /\ f.raised_in # "persist"

\* the last step's ActionResult signals completion to the loop of run()
Signalled(f) == f.action_result.is_done \/ f.action_result.action_name = "output_text"

EmptyResponse(resp) == ~resp.output_text /\ resp.output = <<>>

TextOnly(resp) == resp.output_text /\ resp.output = <<>>

CountKind(messages, kind) ==
    Cardinality({i \in 1..Len(messages) : messages[i].kind = kind})

\* as many tool_call as tool_result entries, each tool_call immediately
\* followed by the tool_result with its call identifier
Paired(messages) ==
    /\ CountKind(messages, "function_call") = CountKind(messages, "function_call_output")
    /\ \A i \in 1..Len(messages) :
          messages[i].kind = "function_call" =>
             /\ i < Len(messages)
             /\ messages[i + 1].kind = "function_call_output"
             /\ messages[i + 1].call_id = messages[i].call_id

\* a step of the running agent that leaves its frame on the stack
StepOfTop == Top.pc = "model" /\ Len(stack') >= Depth

\* C1: at every model invocation of an agent and whenever its run has ended,
\* normally or with an error, the stored conversation holds as many tool_call
\* as tool_result entries and every tool_call is immediately followed by the
\* tool_result with the same call identifier.
C1_ConversationPaired ==
    \A i \in 1..Depth :
       stack[i].pc \in {"model", "returned", "raised"} => Paired(stack[i].messages)

\* C2: a run whose steps never signal completion makes exactly max_steps
\* steps, one model invocation each, and then returns: never one step more,
\* never fewer (the fatal empty response of C7 and the failing transcript
\* write of C19 set aside).
C2_ExactlyBudgetSteps ==
    \A i \in 1..Depth :
       LET f == stack[i]
       IN  /\ f.calls <= f.max_steps
           /\ f.step_number < f.max_steps
           /\ (Ended(f) /\ ~Signalled(f) /\ f.raised_in \notin {"step", "persist"}) =>
                 (f.pc = "returned" /\ f.calls = f.max_steps)

\* C3: when the budget is used up without a termination signal, run() returns
\* a synthesized failing ActionResult, whatever the last step's outcome was.
C3_BudgetExhaustionFails ==
    \A i \in 1..Depth :
       LET f == stack[i]
       IN  (f.pc = "returned" /\ ~Signalled(f) /\ f.calls = f.max_steps) =>
              (f.ret # NoResult /\ f.ret.success = FALSE)

\* the first response of the run asks for done(success, message) and nothing else
FirstResponseIsDone(f) ==
    /\ f.calls = 1
    /\ f.pc # "model"
    /\ ~f.response.output_text
    /\ f.response.output # <<>>
    /\ f.response.output[1].name = "done"

UnregisteredDispatch(f) ==
    /\ Handled(f)
    /\ f.call # NoCall
    /\ f.call.name \notin ToolSet(f.role)

\* C5: dispatching a tool name that is not in the agent's tool set returns an
\* ActionResult with success=false, raises nothing, invokes no tool
\* implementation and leaves the memory of the Context as it was.
C5_UnknownToolFails ==
    [][(StepOfTop /\ UnregisteredDispatch(stack'[Depth])) =>
          LET f == stack[Depth]
              g == stack'[Depth]
          IN  /\ g.raised_in \notin {"tool", "step"}
              /\ g.action_result =
                    ActionResult("execute_tool", FALSE, "not found", NoContent)
              /\ g.invoked = 0
              /\ g.memory = f.memory
              /\ \E base \in {f.messages, add_ai_message(f.messages, "output_text")} :
                    g.messages =
                       add_tool_result_message(
                          add_ai_function_tool_call_message(base, g.call),
                          "not found", g.call.call_id)]_vars

C5_Witness ==
    /\ UnregisteredDispatch(Top)
    /\ Top.call.name = "persist_rows"
    /\ Top.call.rows = <<"s1">>
    /\ Top.action_result.action_name = "execute_tool"
    /\ ~Top.action_result.success
    /\ Top.pc = "run"

\* C6: an exception a tool implementation raises is turned into a failing
\* ActionResult that is appended as the tool_result; no run ends with an
\* exception that came out of a tool.
C6_ToolExceptionCaught ==
    \A i \in 1..Depth :
       LET f == stack[i]
       IN  /\ f.raised_in # "tool"
           /\ (Handled(f) /\ f.call # NoCall /\ f.pc # "tool") =>
                 f.messages[Len(f.messages)].kind = "function_call_output"

\* C7: a response with neither text nor a tool call fails the run at once,
\* for every role: no tool is dispatched and the agent makes no further step.
C7_EmptyResponseFatal ==
    \A i \in 1..Depth :
       LET f == stack[i]
       IN  (Handled(f) /\ EmptyResponse(f.response)) =>
              (f.pc = "raised" /\ f.raised_in = "step" /\ f.invoked = 0)

\* C8 as stated: a text-only response appends exactly one assistant entry,
\* dispatches no tool, yields success=true and is never terminal, whatever
\* the role: the loop goes on while budget remains.
C8_TextOnlyNeverTerminal ==
    [][(StepOfTop /\ TextOnly(stack'[Depth].response)) =>
          LET f == stack[Depth]
              g == stack'[Depth]
          IN  /\ g.messages = add_ai_message(f.messages, "output_text")
              /\ g.invoked = 0
              /\ g.action_result.success
              /\ (f.step_number + 1 < f.max_steps) => g.pc = "run"]_vars

\* C8, by role: for the brain and the navigator a text-only response appends
\* exactly one assistant entry, dispatches no tool, yields success=true and
\* the loop goes on while budget remains; for the extractor and the
\* content-extract agent it appends nothing, dispatches no tool, yields
\* success=true and ends the loop in that step.
C8_TextOnlyByRole ==
    [][(StepOfTop /\ TextOnly(stack'[Depth].response)) =>
          LET f == stack[Depth]
              g == stack'[Depth]
          IN  /\ g.invoked = 0
              /\ g.call = NoCall
              /\ g.action_result.success
              /\ CountKind(g.messages, "function_call") =
                    CountKind(f.messages, "function_call")
              /\ f.role \in {"brain", "navigator", "wna"} =>
                    /\ g.messages = add_ai_message(f.messages, "output_text")
                    /\ ~g.action_result.is_done
                    /\ IF f.step_number + 1 < f.max_steps
                       THEN g.pc = "run" /\ g.step_number = f.step_number + 1
                       ELSE g.pc = "returned"
              /\ f.role \in {"extractor", "cea"} =>
                    /\ g.messages = f.messages
                    /\ Ended(g)
                    /\ g.step_number = f.step_number]_vars

\* a text-only response ended the run of an extractor at step 0 with budget
\* left, and nothing was appended
C8_Witness ==
    /\ Top.role = "extractor"
    /\ Top.max_steps = MaxBudget
    /\ Top.calls = 1
    /\ TextOnly(Top.response)
    /\ Top.pc = "returned"
    /\ Top.messages = InitialMessages

RecordedFirst(f) ==
    /\ f.call.name = f.response.output[1].name
    /\ f.call.success = f.response.output[1].success
    /\ f.call.message = f.response.output[1].message
    /\ f.call.rows = f.response.output[1].rows
    /\ f.call.env = f.response.output[1].env
    /\ f.call.call_id = <<f.calls, 1>>

\* C10: a step invokes at most one tool implementation; of several tool calls
\* in a response only the first is recorded in the conversation and
\* dispatched, the others leave no entry and have no effect.
C10_SingleDispatch ==
    /\ [](\A i \in 1..Depth :
            LET f == stack[i]
            IN  /\ f.invoked <= 1
                /\ CountKind(f.messages, "function_call") <= f.calls
                /\ \A k \in 1..Len(f.messages) : f.messages[k].call_id \in {NoId} \cup
                                                   {<<c, 1>> : c \in 1..f.calls}
                /\ (Handled(f) /\ f.call # NoCall) => RecordedFirst(f))
    /\ [][(StepOfTop /\ Len(stack'[Depth].response.output) >= 2) =>
             LET f == stack[Depth]
                 g == stack'[Depth]
             IN  /\ CountKind(g.messages, "function_call") <=
                       CountKind(f.messages, "function_call") + 1
                 /\ CountKind(g.messages, "function_call_output") <=
                       CountKind(f.messages, "function_call_output") + 1
                 /\ g.response.output[1].name \notin {"persist_rows", "persist_plan"} =>
                       g.memory = f.memory
                 /\ (g.call # NoCall /\ g.raised_in = "none" /\ g.pc # "tool") =>
                       g.action_result.action_name \in
                          {g.response.output[1].name, "execute_tool"}]_vars

C10_Witness ==
    /\ Handled(Top)
    /\ Len(Top.response.output) >= 2
    /\ Top.call.name = "go_to_url"
    /\ Top.invoked = 1
    /\ Top.action_result.action_name = "go_to_url"
    /\ Top.pc = "run"

\* C11: delegation is call/return: while a child agent runs, its parent makes
\* no model invocation, dispatches nothing and appends nothing to its
\* conversation; at any time only one agent, the innermost, is making steps,
\* and the parent goes on only once the child's run() is over.
C11_DelegationBlocksParent ==
    /\ [](/\ Depth \in 1..2
          /\ \A i \in 1..(Depth - 1) :
                /\ stack[i].pc = "tool"
                /\ stack[i].call.name \in DelegationTools
                /\ stack[i].invoked = 0
                /\ stack[i].messages[Len(stack[i].messages)] =
                      Entry("function_call", stack[i].call.call_id, stack[i].call.name,
                            "arguments"))
    /\ [][(Depth = 2 /\ Len(stack') = 2) => stack'[1] = stack[1]]_vars
    /\ [][(Depth = 2 /\ Len(stack') = 1) => Ended(stack[2])]_vars

\* a child is at its model invocation while its parent waits in the tool
C11_Witness ==
    /\ Depth = 2
    /\ stack[1].role = "brain"
    /\ stack[1].pc = "tool"
    /\ stack[1].step_number = 1
    /\ Top.pc = "model"
    /\ Top.calls = 1

\* C12: when the child's loop has come to its end, the delegation tool returns
\* one ActionResult carrying the success flag and the message of the child's
\* terminal ActionResult, and the parent appends that message as the single
\* tool_result of the delegation call.
C12_DelegationMapsResult ==
    [][(Depth = 2 /\ Len(stack') = 1 /\ stack[2].raised_in \in {"none", "run"}) =>
          LET parent == stack[1]
              child == stack[2]
              g == stack'[1]
          IN  /\ child.pc = "returned"
              /\ g.raised_in # "tool"
              /\ g.action_result.action_name = parent.call.name
              /\ g.action_result.success = child.ret.success
              /\ g.action_result.action_result_msg = child.ret.action_result_msg
              /\ g.messages = add_tool_result_message(parent.messages,
                                                      child.ret.action_result_msg,
                                                      parent.call.call_id)]_vars

Dispatched(f, name) ==
    /\ Handled(f)
    /\ f.call.name = name
    /\ name \in ToolSet(f.role)

\* C15: persist_rows appends its batch to the accumulated rows, and an
\* extraction_done that follows returns a finalized result whose rows are
\* the accumulated rows, in call order, none lost, duplicated or reordered.
C15_RowsFinalizedInOrder ==
    [][StepOfTop =>
          LET f == stack[Depth]
              g == stack'[Depth]
          IN  /\ Dispatched(g, "persist_rows") =>
                    g.memory.extracted_rows = f.memory.extracted_rows \o g.call.rows
              /\ (Dispatched(g, "extraction_done") /\ f.memory.extracted_rows # <<>>) =>
                    /\ g.raised_in # "tool"
                    /\ g.action_result.action_name = "extraction_done"
                    /\ g.action_result.content.rows = f.memory.extracted_rows]_vars

\* C16: finalizing with at least one accumulated row writes a CSV file that
\* holds the accumulated rows in append order under the header of the first
\* row (the disk permitting), and the result of the finalize call names it.
C16_FinalizeWritesFile ==
    [][StepOfTop =>
          LET f == stack[Depth]
              g == stack'[Depth]
          IN  /\ (Dispatched(g, "extraction_done") /\ g.call.env = "ok" /\
                  f.memory.extracted_rows # <<>>) =>
                    /\ files' = Append(files, f.memory.extracted_rows)
                    /\ g.action_result.success = g.call.success
                    /\ g.action_result.content.key = "extracted_rows"
              /\ (g.role = "extractor" /\ g.response.output_text /\ g.response.rows # <<>>) =>
                    /\ files' = Append(files, g.response.rows)
                    /\ g.ret.success
                    /\ g.ret.content.rows = g.response.rows]_vars

IsObservation(entry) == entry.kind = "observation"

ObservationsIn(messages) ==
    {i \in 1..Len(messages) : IsObservation(messages[i])}

\* C17: the observation entries sent to the model at one step are not part of
\* what is persisted or sent at the next: the messages of a step are the
\* stored conversation plus the observation that step gathered itself, and
\* the stored conversation never holds an observation.
C17_ObservationsEphemeral ==
    \A i \in 1..Depth :
       LET f == stack[i]
       IN  /\ ObservationsIn(f.messages) = {}
           /\ \A k \in ObservationsIn(f.input) : f.input[k].call_id = <<f.calls, 0>>
           /\ \A k \in ObservationsIn(f.persisted) : f.persisted[k].call_id = <<f.calls, 0>>
           /\ f.pc = "model" =>
                 /\ f.input = f.messages \o Observations(f.role, f.calls)
                 /\ f.persisted = get_json_messages(f.input)

\* the second model invocation of an extractor whose first step stored a
\* tool call and its result
C17_Witness ==
    /\ Top.role = "extractor"
    /\ Top.pc = "model"
    /\ Top.calls = 2
    /\ Len(Top.messages) = 4
    /\ Len(Top.input) = 6
    /\ Top.input[5] = Observation("screenshot", "image", 2)
    /\ Top.persisted[5] = Observation("screenshot", "REDACTED", 2)

\* C18: get_messages returns a deep copy: the observations a step adds to the
\* returned list, and the redaction of its images for the transcript, leave
\* the stored conversation as it was, and what is appended to the stored
\* conversation afterwards leaves the list taken earlier as it was.
C18_SnapshotIsDeepCopy ==
    /\ [][(Top.pc = "run" /\ Len(stack') = Depth) =>
             LET f == stack[Depth]
                 g == stack'[Depth]
             IN  /\ g.messages = IF f.role = "brain"
                                 THEN add_ai_message(f.messages, "Current step")
                                 ELSE f.messages
                 /\ \A k \in ObservationsIn(g.input) : g.input[k].content # "REDACTED"]_vars
    /\ [][StepOfTop =>
             /\ stack'[Depth].input = stack[Depth].input
             /\ stack'[Depth].persisted = stack[Depth].persisted]_vars

\* a content-extract agent appended a tool call and its result to the stored
\* conversation after the list for the model was taken
C18_Witness ==
    /\ Top.role = "cea"
    /\ Top.pc = "run"
    /\ Top.calls = 1
    /\ Len(Top.messages) = 4
    /\ Top.input = InitialMessages \o Observations("cea", 1)

\* C19: a failing write of the per-step transcript or of a screenshot is
\* logged and not raised: the step goes on to invoke the model, the stored
\* conversation is what it would have been, and the run is not aborted.
C19_PersistFailureLogged ==
    [][(Top.pc = "run" /\ Len(stack') = Depth) =>
          LET f == stack[Depth]
              g == stack'[Depth]
          IN  /\ g.pc = "model"
              /\ g.calls = f.calls + 1
              /\ g.raised_in = "none"
              /\ g.input = g.messages \o Observations(g.role, g.calls)]_vars

\* the step that just came to its end got from its tool a result with
\* success=false that is no termination signal
FailedNotTerminal(g) ==
    /\ g.pc # "tool"
    /\ g.call # NoCall
    /\ g.raised_in \in {"none", "run"}
    /\ ~g.action_result.success
    /\ ~Signalled(g)

\* C20: a tool result with success=false that is no termination signal does
\* not end the run and is not retried: its message is appended as the
\* tool_result, nothing more is dispatched in that step, and the loop goes on
\* to the next step, where only a new model response can ask for the tool
\* again.
C20_FailureNotRetried ==
    [][((Top.pc = "model" \/ Depth = 2) /\ Len(stack') <= Depth /\
        FailedNotTerminal(stack'[Len(stack')])) =>
          LET f == stack[Len(stack')]
              g == stack'[Len(stack')]
              last == g.messages[Len(g.messages)]
          IN  /\ last = Entry("function_call_output", g.call.call_id, "-",
                              g.action_result.action_result_msg)
              /\ CountKind(g.messages, "function_call_output") =
                    CountKind(f.messages, "function_call_output") + 1
              /\ g.invoked <= 1
              /\ g.calls = f.calls
              /\ IF f.step_number + 1 < f.max_steps
                 THEN g.pc = "run" /\ g.step_number = f.step_number + 1
                 ELSE Ended(g)]_vars

\* a brain agent is about to make its second step after a failed
\* print_file_content
C20_Witness ==
    /\ Top.role = "brain"
    /\ Top.pc = "run"
    /\ Top.step_number = 1
    /\ Top.call.name = "print_file_content"
    /\ ~Top.action_result.success
    /\ Top.action_result.action_name = "print_file_content"

\* s is the beginning of t
IsPrefix(s, t) == Len(s) <= Len(t) /\ \A i \in 1..Len(s) : t[i] = s[i]

\* C21: the operations of a step happen in order and never overlap: the
\* observation is gathered, then the list that holds it is written, then the
\* model is invoked with that list, then the tool call the model returned is
\* dispatched and its tool_result appended; a failing write keeps the model
\* from being invoked, the dispatch gathers and writes nothing, and the next
\* step gathers its observation on top of everything the step before stored.
C21_StepOrder ==
    /\ [](\A i \in 1..Depth :
            LET f == stack[i]
            IN  f.pc = "model" =>
                   /\ f.input = f.messages \o Observations(f.role, f.calls)
                   /\ f.persisted = get_json_messages(f.input)
                   /\ f.response = NoResponse
                   /\ f.call = NoCall
                   /\ f.invoked = 0)
    /\ [][(Top.pc = "run" /\ Len(stack') = Depth) =>
             LET f == stack[Depth]
                 g == stack'[Depth]
             IN  /\ g.pc \in {"model", "raised"}
                 /\ g.pc = "raised" => (g.calls = f.calls /\ g.raised_in = "persist")
                 /\ g.pc = "model" => (g.calls = f.calls + 1 /\ IsPrefix(f.messages, g.input))
                 /\ (f.calls >= 1 /\ f.call # NoCall) =>
                       f.messages[Len(f.messages)] =
                          Entry("function_call_output", f.call.call_id, "-",
                                f.action_result.action_result_msg)]_vars
    /\ [][Top.pc = "model" =>
             LET f == stack[Depth]
                 g == stack'[Depth]
             IN  /\ g.calls = f.calls
                 /\ g.input = f.input
                 /\ g.persisted = f.persisted
                 /\ IsPrefix(f.messages, g.messages)
                 /\ g.call # NoCall =>
                       /\ RecordedFirst(g)
                       /\ \E k \in (Len(f.messages) + 1)..Len(g.messages) :
                             /\ g.messages[k] = Entry("function_call", g.call.call_id,
                                                      g.call.name, "arguments")
                             /\ k < Len(g.messages) =>
                                   (k + 1 = Len(g.messages) /\
                                    g.messages[k + 1].kind = "function_call_output")]_vars

\* a navigator is at the model invocation of its second step, after a first
\* step that dispatched a tool and stored the result
C21_Witness ==
    /\ Top.role = "navigator"
    /\ Top.pc = "model"
    /\ Top.calls = 2
    /\ Top.messages[Len(Top.messages) - 1].kind = "function_call"
    /\ Top.messages[Len(Top.messages)].kind = "function_call_output"
    /\ Top.input = Top.messages \o Observations("navigator", 2)
    /\ Top.persisted = get_json_messages(Top.input)

Min(a, b) == IF a <= b THEN a ELSE b

\* C22: the stored conversation of every agent begins with its one system
\* entry and holds no other, and it is append-only: from one state to the next
\* the stored conversation of an agent only grows at its end, no entry is
\* removed, reordered or rewritten.
C22_ConversationAppendOnly ==
    /\ [](\A i \in 1..Depth :
            /\ Len(stack[i].messages) >= 1
            /\ stack[i].messages[1].kind = "system"
            /\ CountKind(stack[i].messages, "system") = 1)
    /\ [][\A i \in 1..Min(Depth, Len(stack')) :
             IsPrefix(stack[i].messages, stack'[i].messages)]_vars

\* a brain agent made two steps with a tool call each: two step markers, two
\* tool calls and two tool results follow the system prompt and the task
C22_Witness ==
    /\ Top.role = "brain"
    /\ Top.pc = "returned"
    /\ Top.calls = 2
    /\ Len(Top.messages) = 8
    /\ Top.messages[1].kind = "system"
    /\ Top.messages[8].kind = "function_call_output"

\* C23: a brain agent persists a plan through a persist_plan tool call: after
\* the call the memory of its Context holds that plan, and it stays there
\* through every later step until another persist_plan replaces it.
C23_BrainPersistsPlan ==
    [][(StepOfTop /\ Top.role = "brain" /\ stack'[Depth].call # NoCall) =>
          LET f == stack[Depth]
              g == stack'[Depth]
          IN  IF g.call.name = "persist_plan"
              THEN /\ g.action_result.action_name = "persist_plan"
                   /\ g.action_result.success
                   /\ g.memory.plan = g.call.message
              ELSE g.memory.plan = f.memory.plan]_vars

\* C24: writing a step's transcript replaces image payloads by a placeholder
\* in the written JSON only: the list handed to persist_state is unchanged,
\* the model invocation that follows receives the image payloads the step
\* gathered, and the written JSON holds no image payload and is otherwise the
\* list entry by entry.
C24_RedactionInWrittenJsonOnly ==
    \A i \in 1..Depth :
       LET f == stack[i]
       IN  f.pc = "model" =>
              /\ f.input = f.messages \o Observations(f.role, f.calls)
              /\ Len(f.persisted) = Len(f.input)
              /\ \A k \in 1..Len(f.input) :
                    /\ f.persisted[k].content # "image"
                    /\ f.input[k].content # "REDACTED"
                    /\ IF f.input[k].content = "image"
                       THEN f.persisted[k] = [f.input[k] EXCEPT !.content = "REDACTED"]
                       ELSE f.persisted[k] = f.input[k]

\* a content-extract agent is at its first model invocation: the browser
\* state sent to the model holds the screenshot, the written one does not
C24_Witness ==
    /\ Top.role = "cea"
    /\ Top.pc = "model"
    /\ Top.calls = 1
    /\ Top.input[3] = Observation("browser_state", "image", 1)
    /\ Top.persisted[3] = Observation("browser_state", "REDACTED", 1)
    /\ Top.persisted[4] = Top.input[4]

\* C25: termination is absorbing: once the ActionResult of a step meets the
\* termination predicate the agent makes no further step, and run() returns
\* exactly that ActionResult.
C25_TerminationAbsorbing ==
    \A i \in 1..Depth :
       LET f == stack[i]
       IN  (Handled(f) /\ f.pc # "tool" /\ f.raised_in \in {"none", "run"} /\ Signalled(f)) =>
              /\ f.pc = "returned"
              /\ f.ret = f.action_result

\* C26: a child's termination never terminates its parent: the ActionResult
\* the delegation tool hands to the parent carries the tool's own name and no
\* termination signal, so after the child's loop has come to its end the
\* parent's loop goes on while its budget lasts.
C26_ChildEndLeavesParentRunning ==
    [][(Depth = 2 /\ Len(stack') = 1 /\ stack[2].raised_in \in {"none", "run"}) =>
          LET parent == stack[1]
              g == stack'[1]
          IN  /\ g.action_result.action_name = parent.call.name
              /\ ~Signalled(g)
              /\ g.raised_in = "none"
              /\ IF parent.step_number + 1 < parent.max_steps
                 THEN g.pc = "run" /\ g.step_number = parent.step_number + 1
                 ELSE g.pc = "returned"]_vars

\* C27: delegation depth is bounded: the tool lists of the specialists hold
\* no delegation tool, so a child agent never starts a child of its own (its
\* request for one is answered 'not found'), and at any time at most two step
\* loops, the brain's and one specialist's, are on the call stack.
C27_DelegationDepthBounded ==
    /\ [](/\ Depth <= 2
          /\ Depth = 2 => stack[1].role = "brain"
          /\ \A i \in 2..Depth :
                /\ stack[i].role \in {"wna", "cea"}
                /\ ToolSet(stack[i].role) \cap DelegationTools = {})
    /\ [][(Depth = 2 /\ Top.pc = "model") =>
             /\ Len(stack') = 2
             /\ children' = children
             /\ next_agent_id' = next_agent_id
             /\ stack'[2].call.name \in DelegationTools =>
                   /\ stack'[2].invoked = 0
                   /\ stack'[2].action_result =
                         ActionResult("execute_tool", FALSE, "not found", NoContent)]_vars

\* a navigator child asked for cea_extract_content and was told the tool
\* does not exist; no second child was created
C27_Witness ==
    /\ Depth = 2
    /\ Top.role = "wna"
    /\ Top.call.name = "cea_extract_content"
    /\ Top.action_result.action_name = "execute_tool"
    /\ Len(children) = 1
    /\ next_agent_id = 1

\* C28: an agent executes only the tools of its own tool list: a brain agent
\* asked for a specialist tool and a specialist asked for a delegation tool
\* get the failing 'not found' result; no tool implementation runs, the
\* memory is unchanged, no file is written and no child agent is created.
C28_OwnToolSetOnly ==
    [][(Top.pc = "model" /\ stack'[Depth].call # NoCall /\
        stack'[Depth].call.name \notin ToolSet(Top.role)) =>
          LET f == stack[Depth]
              g == stack'[Depth]
          IN  /\ Len(stack') = Depth
              /\ g.action_result = ActionResult("execute_tool", FALSE, "not found", NoContent)
              /\ g.messages[Len(g.messages)] =
                    Entry("function_call_output", g.call.call_id, "-", "not found")
              /\ g.invoked = 0
              /\ g.memory = f.memory
              /\ g.extracted_rows = f.extracted_rows
              /\ g.raised_in \in {"none", "run"}
              /\ children' = children
              /\ next_agent_id' = next_agent_id
              /\ files' = files]_vars

\* a brain agent asked for click_element, was told the tool does not exist
\* and goes on to its next step
C28_Witness ==
    /\ Top.role = "brain"
    /\ Top.pc = "run"
    /\ Top.call.name = "click_element"
    /\ Top.invoked = 0
    /\ Top.action_result.action_name = "execute_tool"
    /\ children = <<>>

\* the run of the top-level agent is over and control is back at its caller
RunOver == Depth = 1 /\ Ended(stack[1])

\* the operations a loop still has before it, at most: `cost` for each step
\* not yet begun, one less once the model was invoked, and for a step that
\* waits for a child the return of the child
FrameRank(f, cost) ==
    CASE f.pc = "run" -> (f.max_steps - f.step_number) * cost
      [] f.pc = "model" -> (f.max_steps - f.step_number) * cost - 1
      [] f.pc = "tool" -> (f.max_steps - f.step_number - 1) * cost + 1
      [] OTHER -> 0

\* a step of a child is two operations, a step of the top-level agent those
\* two, the steps of the child it may start and the child's return
Rank ==
    FrameRank(stack[1], 3 + 2 * MaxChildBudget)
    + (IF Depth >= 2 THEN FrameRank(stack[2], 2) ELSE 0)

\* an operation is pending: the running agent is about to begin a step or
\* waits for the model's response, or a child's run is over and its parent
\* waits for the result
Pending == Top.pc \in {"run", "model"} \/ (Depth >= 2 /\ Ended(Top))

\* a pending operation can be made
PendingIsEnabled == Pending <=> ENABLED Next

\* the run comes to its end and stays there
EventuallyRunOver == <>[]RunOver

C30_FinalizeWithoutRows ==
    [][(StepOfTop /\ Dispatched(stack'[Depth], "extraction_done") /\
        Top.memory.extracted_rows = <<>>) =>
          LET g == stack'[Depth]
          IN  /\ g.raised_in # "tool"
              /\ g.action_result.action_name = "extraction_done"
              /\ g.action_result.success = g.call.success
              /\ g.action_result.content.rows = <<>>
              /\ g.messages[Len(g.messages)].kind = "function_call_output"
              /\ files' = files]_vars

\* C31: persist_rows called with an empty batch returns success=false and
\* leaves the memory of the Context unchanged: the extracted_rows key is not
\* created and the rows accumulated by earlier calls stay as they are.
C31_EmptyBatchRefused ==
    [][(StepOfTop /\ Dispatched(stack'[Depth], "persist_rows") /\
        stack'[Depth].call.rows = <<>>) =>
          LET f == stack[Depth]
              g == stack'[Depth]
          IN  /\ g.raised_in # "tool"
              /\ g.action_result =
                    ActionResult("persist_rows", FALSE, "No rows were passed to the tool!",
                                 NoContent)
              /\ g.memory = f.memory
              /\ g.memory.has_rows = f.memory.has_rows
              /\ g.memory.extracted_rows = f.memory.extracted_rows
              /\ files' = files]_vars

\* an extraction agent stored a row at its first step and passed an empty
\* batch at its second: the row is still the only one
C31_Witness ==
    /\ Top.role \in {"extractor", "cea"}
    /\ Top.calls = 2
    /\ Dispatched(Top, "persist_rows")
    /\ Top.call.rows = <<>>
    /\ ~Top.action_result.success
    /\ Top.memory.extracted_rows = <<"s1">>

\* C32: the brain agent handles a response that carries both text and a tool
\* call as text only: the text is appended as one assistant entry, the tool
\* call is neither recorded in the conversation nor dispatched, and a done
\* call in such a response does not end the run.
C32_BrainTextHidesCall ==
    [][(StepOfTop /\ Top.role = "brain" /\ stack'[Depth].response.output_text /\
        stack'[Depth].response.output # <<>>) =>
          LET f == stack[Depth]
              g == stack'[Depth]
          IN  /\ Len(stack') = Depth
              /\ g.messages = add_ai_message(f.messages, "output_text")
              /\ g.call = NoCall
              /\ g.invoked = 0
              /\ g.memory = f.memory
              /\ g.action_result =
                    ActionResultIsDone("default_action_name", TRUE,
                                       "No action executed. The model output is text.",
                                       NoContent, FALSE)
              /\ IF f.step_number + 1 < f.max_steps
                 THEN g.pc = "run" /\ g.step_number = f.step_number + 1
                 ELSE g.pc = "returned" /\ g.ret = g.action_result]_vars

\* the first response of a brain agent held text and a done call: the agent
\* is about to make its second step
C32_Witness ==
    /\ Top.role = "brain"
    /\ Top.pc = "run"
    /\ Top.step_number = 1
    /\ Top.response.output_text
    /\ Len(Top.response.output) = 1
    /\ Top.response.output[1].name = "done"
    /\ CountKind(Top.messages, "function_call") = 0

\* C33 as stated: the message list persisted at step K is exactly the message
\* list sent to the model at step K, for the brain agent and the extraction
\* agents.
C33_PersistedIsSent ==
    \A i \in 1..Depth :
       LET f == stack[i]
       IN  (f.pc = "model" /\ f.role \in {"brain", "extractor", "cea"}) =>
              f.persisted = f.input

\* C33, amended: the message list persisted at step K is the message list
\* sent to the model at step K, entry by entry in the same order and with
\* that step's observation entries, except that an image payload is written
\* as a placeholder; for the brain agent, whose observation holds no image,
\* the two are equal.
C33_PersistedIsSentRedacted ==
    \A i \in 1..Depth :
       LET f == stack[i]
       IN  (f.pc = "model" /\ f.role \in {"brain", "extractor", "cea"}) =>
              /\ Len(f.persisted) = Len(f.input)
              /\ Len(f.input) = Len(f.messages) + Len(Observations(f.role, f.calls))
              /\ \A k \in 1..Len(f.input) :
                    /\ f.persisted[k].kind = f.input[k].kind
                    /\ f.persisted[k].call_id = f.input[k].call_id
                    /\ f.persisted[k].name = f.input[k].name
                    /\ f.persisted[k].content =
                          IF f.input[k].content = "image" THEN "REDACTED"
                          ELSE f.input[k].content
              /\ ObservationsIn(f.persisted) = ObservationsIn(f.input)
              /\ \A k \in ObservationsIn(f.input) : f.input[k].call_id = <<f.calls, 0>>
              /\ f.role = "brain" => f.persisted = f.input

\* an extractor is at its first model invocation: what was written differs
\* from what is sent in the screenshot only
C33_Witness ==
    /\ Top.role = "extractor"
    /\ Top.pc = "model"
    /\ Top.calls = 1
    /\ Top.input[3] = Observation("screenshot", "image", 1)
    /\ Top.persisted[3] = Observation("screenshot", "REDACTED", 1)
    /\ Top.persisted[4] = Top.input[4]
    /\ Top.persisted # Top.input

\* the last step the agent made produced at least one row
ProducedRows(f) ==
    /\ f.action_result.action_name = "output_text"
    /\ f.action_result.content.key = "rows"
    /\ f.action_result.content.rows # <<>>

\* C34: MyExtractorAgent.run, whenever it returns, returns an ActionResult
\* named 'done' whose success is true exactly when the last step produced at
\* least one row; it writes a CSV file, holding those rows, in that case
\* only, and when the budget ran out without rows it returns success=false.
C34_ExtractorRunResult ==
    /\ [](\A i \in 1..Depth :
            LET f == stack[i]
            IN  (f.role = "extractor" /\ f.pc = "returned") =>
                   /\ f.ret.action_name = "done"
                   /\ f.ret.success <=> ProducedRows(f)
                   /\ f.ret.success => f.ret.content.rows = f.action_result.content.rows
                   /\ f.action_result.action_name # "output_text" =>
                         (f.calls = f.max_steps /\ ~f.ret.success))
    /\ [][(StepOfTop /\ Top.role = "extractor" /\ stack'[Depth].pc = "returned") =>
             LET g == stack'[Depth]
             IN  files' = IF ProducedRows(g)
                          THEN Append(files, g.action_result.content.rows)
                          ELSE files]_vars

\* an extractor answered its second step with one row as text: run()
\* returned success and the rows are in a CSV file
C34_Witness ==
    /\ Top.role = "extractor"
    /\ Top.pc = "returned"
    /\ Top.calls = 2
    /\ Top.ret.action_name = "done"
    /\ Top.ret.success
    /\ Top.ret.content.rows = <<"d1">>
    /\ files = <<(<<"d1">>)>>

\* C35: agent ids come from one counter of the process, shared by all
\* Contexts: the ids allocated in two top-level runs of one process never
\* collide, they grow in the order of allocation across the runs, and the
\* ids of a second run go on where the first run stopped instead of starting
\* at 0 again.
C35_IdsProcessWide ==
    /\ next_agent_id >= Len(children)
    /\ \A i \in 1..Len(children) :
          /\ children[i].ctx_id \in 0..(next_agent_id - 1)
          /\ children[i].agent_id \in 0..(next_agent_id - 1)
          /\ children[i].ctx_id >= i - 1
          /\ \A j \in 1..Len(children) :
                i < j => /\ children[i].run_id <= children[j].run_id
                         /\ children[i].ctx_id < children[j].ctx_id
                         /\ children[i].agent_id < children[j].agent_id
                         /\ children[i].agent_id # children[j].ctx_id
                         /\ children[i].ctx_id # children[j].agent_id

\* the second run of the process created a child after the first run had
\* created one: its ids follow those of the first run
C35_Witness ==
    /\ run_id = 2
    /\ Len(children) >= 2
    /\ children[1].run_id = 1
    /\ children[1].ctx_id = 0
    /\ children[Len(children)].run_id = 2
    /\ children[Len(children)].ctx_id > children[1].agent_id

====
